---- MODULE Spec2Model ----
(***************************************************************************)
(* Model of ChatServer (apps/api/src/websocket.ts): one chat room served   *)
(* over WebSocket connections.  Every handler of the server runs to        *)
(* completion on the single-threaded event loop, so each handler is one    *)
(* atomic action.                                                          *)
(*                                                                         *)
(* Strings are sequences of one-character strings, so that trim() and      *)
(* toLowerCase() are computed and not assumed.  A user id `user_<n>` is    *)
(* the number n; the userId "system" of system events is SystemId.         *)
(* Date.now() timestamps are left out.  generateMessageId() is modelled    *)
(* for chat messages only, as the sequence number of the message.          *)
(***************************************************************************)
EXTENDS Integers, Sequences, FiniteSets, TLC

\* ------------------------------------------------------------------ bounds
MaxConn == 2          \* connections accepted in a run of Spec
MaxMsgs == 1          \* chat messages accepted in a run of Spec
RoomConn == 2         \* connections accepted in a run of SpecRoom
RoomMsgs == 2         \* chat messages accepted in a run of SpecRoom
HistConn == 1         \* connections accepted in a run of SpecHist
HistMsgs == 102       \* chat messages accepted in a run of SpecHist
NameConn == 2         \* connections accepted in a run of SpecName
LiveConn == 2         \* connections accepted in a run of SpecLive

\* -------------------------------------------------------- program constants
HistoryLimit == 100   \* websocket.ts:147
FirstUserId == 1      \* websocket.ts:24
SystemId == 0         \* userId "system" of system events

\* ------------------------------------------------------------------ inputs
\* What a field of a parsed JSON payload can be: a string, a value that is
\* not a string but truthy (a number, an array), or absent/null.
Str(s) == [t |-> "str", s |-> s]
NotAString == [t |-> "num", s |-> <<>>]
Absent == [t |-> "absent", s |-> <<>>]

RawNames == { <<" ">>, <<"a">>, <<" ", "A", " ">>, <<"b">> }
RawContents == { <<" ">>, <<" ", "h">> }
Usernames == { Str(n) : n \in RawNames } \cup { NotAString, Absent }
Contents == { Str(c) : c \in RawContents } \cup { NotAString, Absent }
\* payloads handleMessage does not know: JSON that does not parse, JSON
\* `null` (reading .type throws), and an object of another type
InvalidKinds == { "unparsable", "null", "unknown_type" }

\* well-formed input only
RoomUsernames == { Str(<<"a">>), Str(<<"b">>) }
RoomContents == { Str(<<" ", "h">>) }

HistUsernames == { Str(<<"a">>) }

\* names that differ in their surrounding whitespace only
NameUsernames ==
  { Str(<<>>), Str(<<" ">>), Str(<<"a">>), Str(<<" ", "a", " ">>), Str(<<"b", " ">>) }
HistContents == { Str(<<"h">>) }

\* ------------------------------------------------------- string functions
IsSpace(c) == c = " "

RECURSIVE TrimStart(_)
TrimStart(s) ==
  IF s # <<>> /\ IsSpace(Head(s)) THEN TrimStart(Tail(s)) ELSE s

RECURSIVE TrimEnd(_)
TrimEnd(s) ==
  IF s # <<>> /\ IsSpace(s[Len(s)]) THEN TrimEnd(SubSeq(s, 1, Len(s) - 1)) ELSE s

\* String.prototype.trim
trim(s) == TrimEnd(TrimStart(s))

LowerChar(c) == CASE c = "A" -> "a" [] c = "B" -> "b" [] c = "H" -> "h" [] OTHER -> c

\* String.prototype.toLowerCase
toLowerCase(s) == [i \in 1..Len(s) |-> LowerChar(s[i])]

\* JavaScript truthiness of a payload field: `!x` is true for an absent
\* field and for the empty string
Falsy(x) == x.t = "absent" \/ (x.t = "str" /\ x.s = <<>>)

\* ------------------------------------------------------------------- state
VARIABLES
  users,        \* Map<string, User> in insertion order: sequence of [id, username]
  messageHistory, \* ChatMessage[]
  nextUserId,   \* counter of user ids
  conn,         \* per connection: the state of its WebSocket
  outbox,       \* the sendMessage calls of the last handler, in order
  last,         \* the event the last handler processed, and what it returned
  accepted,     \* all chat messages ever stored, in order (history variable)
  received      \* per connection, until its disconnect is handled: the ids of
                \* the chat messages that went out on its socket (history variable)

vars == <<users, messageHistory, nextUserId, conn, outbox, last, accepted, received>>

\* the user ids a run can hand out
Max(a, b) == IF a > b THEN a ELSE b
Ids ==
  FirstUserId..(FirstUserId + Max(Max(MaxConn, Max(NameConn, LiveConn)), Max(RoomConn, HistConn)) - 1)

\* ----------------------------------------------------------------- messages
Message(type, tag, str, members, username, userId, id) ==
  [type |-> type, tag |-> tag, str |-> str, members |-> members,
   username |-> username, userId |-> userId, id |-> id]

\* content of the system events, websocket.ts:59, 111, 163, 186
\* mutant: the welcome is typed as a chat message
WelcomeMessageTypedMessage ==
  Message("message", "Welcome to the chat!", <<>>, <<>>, "System", SystemId, 0)
WelcomeMessage ==
  Message("user_joined", "Welcome to the chat!", <<>>, <<>>, "System", SystemId, 0)
JoinMessage(name) ==
  Message("user_joined", "joined the chat", name, <<>>, "System", SystemId, 0)
LeaveMessage(name) ==
  Message("user_left", "left the chat", name, <<>>, "System", SystemId, 0)
\* sendError: content `Error: ${error}`
ErrorMessage(error) ==
  Message("message", error, <<>>, <<>>, "System", SystemId, 0)
UserListMessage(us) ==
  Message("user_list", "list", <<>>, [i \in 1..Len(us) |-> [id |-> us[i].id, username |-> us[i].username]],
          "System", SystemId, 0)
ChatMessage(user, content, id) ==
  Message("message", "text", trim(content), <<>>, user.username, user.id, id)

\* ------------------------------------------------------------------ the Map
Has(us, id) == \E i \in 1..Len(us) : us[i].id = id
Get(us, id) == us[CHOOSE i \in 1..Len(us) : us[i].id = id]
\* Map.set: a new key goes last, an existing key keeps its place
MapSet(us, id, username) ==
  IF Has(us, id)
  THEN [i \in 1..Len(us) |-> IF us[i].id = id THEN [id |-> id, username |-> username] ELSE us[i]]
  ELSE Append(us, [id |-> id, username |-> username])
RECURSIVE MapDelete(_, _)
MapDelete(us, id) ==
  IF us = <<>> THEN <<>>
  ELSE IF Head(us).id = id THEN MapDelete(Tail(us), id)
  ELSE <<Head(us)>> \o MapDelete(Tail(us), id)

\* ------------------------------------------------------------------ sending
\* sendMessage: the message goes out only on an OPEN socket
sendMessage(c, to, msg) == [to |-> to, msg |-> msg, delivered |-> c[to] = "open"]
\* mutant: the notice goes out twice
sendErrorTwice(c, to, error) ==
  <<sendMessage(c, to, ErrorMessage(error)), sendMessage(c, to, ErrorMessage(error))>>
sendError(c, to, error) == <<sendMessage(c, to, ErrorMessage(error))>>
sendUserList(c, us, to) == sendMessage(c, to, UserListMessage(us))
\* mutant: the history is replayed newest first
sendMessageHistoryReversed(c, hist, to) ==
  [i \in 1..Len(hist) |-> sendMessage(c, to, hist[Len(hist) + 1 - i])]
sendMessageHistory(c, hist, to) == [i \in 1..Len(hist) |-> sendMessage(c, to, hist[i])]
\* mutant: the broadcast goes to every connected socket (wss.clients)
broadcastMessageAllClients(c, us, msg) ==
  LET all == [i \in 1..Cardinality(Ids) |-> FirstUserId + i - 1]
      clients == SelectSeq(all, LAMBDA s : c[s] \in {"open", "closing"})
  IN [i \in 1..Len(clients) |-> sendMessage(c, clients[i], msg)]
\* mutant: the broadcast stops at the first socket that is not OPEN, as if
\* the send had thrown
broadcastMessageStopsAtClosed(c, us, msg) ==
  LET closedAt == { i \in 1..Len(us) : c[us[i].id] # "open" }
      n == IF closedAt = {} THEN Len(us)
           ELSE CHOOSE i \in closedAt : \A j \in closedAt : i <= j
  IN [i \in 1..n |-> sendMessage(c, us[i].id, msg)]
\* mutant: the sender of a chat message is left out of the broadcast
broadcastMessageExceptSender(c, us, msg) ==
  LET others == SelectSeq(us, LAMBDA u : u.id # msg.userId) IN
  [i \in 1..Len(others) |-> sendMessage(c, others[i].id, msg)]
broadcastMessage(c, us, msg) == [i \in 1..Len(us) |-> sendMessage(c, us[i].id, msg)]
\* mutant: each recipient is sent the list of the users before it in the map
broadcastUserListPartial(c, us) ==
  [i \in 1..Len(us) |-> sendUserList(c, SubSeq(us, 1, i), us[i].id)]
broadcastUserList(c, us) == [i \in 1..Len(us) |-> sendUserList(c, us, us[i].id)]

\* the ids of the chat messages among the sends that went out to a socket
Delivered(out, to) ==
  { out[k].msg.id : k \in { i \in 1..Len(out) :
      out[i].to = to /\ out[i].delivered /\ out[i].msg.type = "message" /\ out[i].msg.tag = "text" } }
Receives(rcv, out) ==
  IF \A i \in 1..Len(out) : out[i].msg.tag # "text" THEN rcv
  ELSE [s \in Ids |-> rcv[s] \cup Delivered(out, s)]

Init ==
  /\ users = <<>>
  /\ messageHistory = <<>>
  /\ nextUserId = FirstUserId
  /\ conn = [s \in Ids |-> "none"]
  /\ outbox = <<>>
  /\ last = [op |-> "init", id |-> 0, arg |-> Absent, ret |-> 0]
  /\ accepted = <<>>
  /\ received = [s \in Ids |-> {}]

\* ---------------------------------------------------------------- handlers
\* The result of a handler: the new users map and history, the sendMessage
\* calls it made, whether it threw, and the chat message it stored (if any).
Result(us, hist, out, threw, stored) ==
  [users |-> us, history |-> hist, out |-> out, threw |-> threw, stored |-> stored]

\* mutant: the search for existingUser compares the names as they are
UsernameTakenCaseSensitive(us, name) ==
  \E i \in 1..Len(us) : us[i].username = name

\* websocket.ts:91-93, the search for existingUser
UsernameTaken(us, name) ==
  \E i \in 1..Len(us) : toLowerCase(us[i].username) = toLowerCase(name)

\* mutant: the name is not looked up in the users map
joinCheckNoLookup(us, username) ==
  IF Falsy(username) THEN "required"
  ELSE IF username.t # "str" THEN "throws"
  ELSE IF Len(trim(username.s)) = 0 THEN "required"
  ELSE "ok"
\* mutant: only `!username` is tested, a blank name passes
joinCheckNoBlankTest(us, username) ==
  IF Falsy(username) THEN "required"
  ELSE IF username.t # "str" THEN "throws"
  ELSE IF UsernameTaken(us, trim(username.s)) THEN "taken"
  ELSE "ok"

\* websocket.ts:83-98, the tests a join goes through
joinCheck(us, username) ==
  IF Falsy(username) THEN "required"
  ELSE IF username.t # "str" THEN "throws"      \* username.trim is not a function
  ELSE IF Len(trim(username.s)) = 0 THEN "required"
  ELSE IF UsernameTaken(us, trim(username.s)) THEN "taken"
  ELSE "ok"

\* mutant: the history goes out first
joinSendsHistoryFirst(c, us, hist, userId, trimmedUsername) ==
  sendMessageHistory(c, hist, userId)
    \o broadcastMessage(c, us, JoinMessage(trimmedUsername))
    \o broadcastUserList(c, us)

\* websocket.ts:107-121, what a successful join sends; us is the map after
\* the join
joinSends(c, us, hist, userId, trimmedUsername) ==
  broadcastMessage(c, us, JoinMessage(trimmedUsername))
    \o broadcastUserList(c, us)
    \o sendMessageHistory(c, hist, userId)

\* mutant: the join notice is kept in the history
handleUserJoinStoresNotice(c, us, hist, userId, username) ==
  LET check == joinCheck(us, username) IN
  CASE check = "required" ->
         Result(us, hist, sendError(c, userId, "Error: Username is required"), FALSE, <<>>)
    [] check = "throws" -> Result(us, hist, <<>>, TRUE, <<>>)
    [] check = "taken" ->
         Result(us, hist, sendError(c, userId, "Error: Username already taken"), FALSE, <<>>)
    [] OTHER ->
         LET trimmedUsername == trim(username.s)
             us2 == MapSet(us, userId, trimmedUsername)
         IN Result(us2, Append(hist, JoinMessage(trimmedUsername)),
                   joinSends(c, us2, hist, userId, trimmedUsername), FALSE, <<>>)
\* mutant: the name is stored and announced as it was sent
handleUserJoinStoresRaw(c, us, hist, userId, username) ==
  LET check == joinCheck(us, username) IN
  CASE check = "required" ->
         Result(us, hist, sendError(c, userId, "Error: Username is required"), FALSE, <<>>)
    [] check = "throws" -> Result(us, hist, <<>>, TRUE, <<>>)
    [] check = "taken" ->
         Result(us, hist, sendError(c, userId, "Error: Username already taken"), FALSE, <<>>)
    [] OTHER ->
         LET us2 == MapSet(us, userId, username.s)
         IN Result(us2, hist, joinSends(c, us2, hist, userId, username.s), FALSE, <<>>)
handleUserJoin(c, us, hist, userId, username) ==
  LET check == joinCheck(us, username) IN
  CASE check = "required" ->
         Result(us, hist, sendError(c, userId, "Error: Username is required"), FALSE, <<>>)
    [] check = "throws" -> Result(us, hist, <<>>, TRUE, <<>>)
    [] check = "taken" ->
         Result(us, hist, sendError(c, userId, "Error: Username already taken"), FALSE, <<>>)
    [] OTHER ->
         LET trimmedUsername == trim(username.s)
             us2 == MapSet(us, userId, trimmedUsername)
         IN Result(us2, hist, joinSends(c, us2, hist, userId, trimmedUsername), FALSE, <<>>)

\* mutant: the history is never cut
StoreMessageNoShift(hist, message) == Append(hist, message)

\* mutant: the newest message is dropped instead of the oldest
StoreMessagePop(hist, message) ==
  LET pushed == Append(hist, message) IN
  IF Len(pushed) > HistoryLimit THEN SubSeq(pushed, 1, HistoryLimit) ELSE pushed

\* mutant: the message is put at the front of the history
StoreMessageUnshift(hist, message) ==
  LET pushed == <<message>> \o hist IN
  IF Len(pushed) > HistoryLimit THEN SubSeq(pushed, 1, HistoryLimit) ELSE pushed
\* websocket.ts:146-149
StoreMessage(hist, message) ==
  LET pushed == Append(hist, message) IN
  IF Len(pushed) > HistoryLimit THEN Tail(pushed) ELSE pushed

\* mutant: a message that cannot be accepted is answered with an error notice
handleChatMessageReportsDrop(c, us, hist, userId, content, id) ==
  IF ~Has(us, userId)
  THEN Result(us, hist, sendError(c, userId, "Error: Not joined"), FALSE, <<>>)
  ELSE IF Falsy(content)
  THEN Result(us, hist, sendError(c, userId, "Error: Empty message"), FALSE, <<>>)
  ELSE IF content.t # "str"
  THEN Result(us, hist, <<>>, TRUE, <<>>)
  ELSE IF Len(trim(content.s)) = 0
  THEN Result(us, hist, sendError(c, userId, "Error: Empty message"), FALSE, <<>>)
  ELSE LET message == ChatMessage(Get(us, userId), content.s, id) IN
    Result(us, StoreMessage(hist, message), broadcastMessage(c, us, message), FALSE, <<message>>)

\* websocket.ts:126-153
handleChatMessage(c, us, hist, userId, content, id) ==
  IF ~Has(us, userId)
  THEN Result(us, hist, <<>>, FALSE, <<>>)
  ELSE IF Falsy(content)
  THEN Result(us, hist, <<>>, FALSE, <<>>)
  ELSE IF content.t # "str"
  THEN Result(us, hist, <<>>, TRUE, <<>>)          \* content.trim is not a function
  ELSE IF Len(trim(content.s)) = 0
  THEN Result(us, hist, <<>>, FALSE, <<>>)
  ELSE LET message == ChatMessage(Get(us, userId), content.s, id) IN
    Result(us, StoreMessage(hist, message), broadcastMessage(c, us, message), FALSE, <<message>>)

\* mutant: the messages of the user that leaves are taken out of the history
handleUserDisconnectPurgesHistory(c, us, hist, userId) ==
  IF Has(us, userId)
  THEN LET user == Get(us, userId)
           us2 == MapDelete(us, userId)
       IN Result(us2, SelectSeq(hist, LAMBDA m : m.userId # userId),
                 broadcastMessage(c, us2, LeaveMessage(user.username)) \o broadcastUserList(c, us2),
                 FALSE, <<>>)
  ELSE Result(us, hist, <<>>, FALSE, <<>>)
\* mutant: the user is announced as gone and left in the map
handleUserDisconnectKeepsUser(c, us, hist, userId) ==
  IF Has(us, userId)
  THEN LET user == Get(us, userId)
       IN Result(us, hist,
                 broadcastMessage(c, us, LeaveMessage(user.username)) \o broadcastUserList(c, us),
                 FALSE, <<>>)
  ELSE Result(us, hist, <<>>, FALSE, <<>>)
\* mutant: the handler does not test whether the user is in the map
handleUserDisconnectNoTest(c, us, hist, userId) ==
  LET us2 == MapDelete(us, userId)
      name == IF Has(us, userId) THEN Get(us, userId).username ELSE <<>>
  IN Result(us2, hist,
            broadcastMessage(c, us2, LeaveMessage(name)) \o broadcastUserList(c, us2),
            FALSE, <<>>)
\* mutant: the user list goes out before the leave message
handleUserDisconnectListFirst(c, us, hist, userId) ==
  IF Has(us, userId)
  THEN LET user == Get(us, userId)
           us2 == MapDelete(us, userId)
       IN Result(us2, hist,
                 broadcastUserList(c, us2) \o broadcastMessage(c, us2, LeaveMessage(user.username)),
                 FALSE, <<>>)
  ELSE Result(us, hist, <<>>, FALSE, <<>>)

\* websocket.ts:155-174
handleUserDisconnect(c, us, hist, userId) ==
  IF Has(us, userId)
  THEN LET user == Get(us, userId)
           us2 == MapDelete(us, userId)
       IN Result(us2, hist,
                 broadcastMessage(c, us2, LeaveMessage(user.username)) \o broadcastUserList(c, us2),
                 FALSE, <<>>)
  ELSE Result(us, hist, <<>>, FALSE, <<>>)

\* mutant: a payload of an unknown type is ignored
handleMessageIgnoresUnknown(c, us, hist, userId, message, id) ==
  CASE message.type = "null" -> Result(us, hist, <<>>, TRUE, <<>>)
    [] message.type = "join" -> handleUserJoin(c, us, hist, userId, message.arg)
    [] message.type = "message" -> handleChatMessage(c, us, hist, userId, message.arg, id)
    [] OTHER -> Result(us, hist, <<>>, FALSE, <<>>)
\* a payload is [type, arg]
handleMessage(c, us, hist, userId, message, id) ==
  CASE message.type = "null" -> Result(us, hist, <<>>, TRUE, <<>>)   \* null.type throws
    [] message.type = "join" -> handleUserJoin(c, us, hist, userId, message.arg)
    [] message.type = "message" -> handleChatMessage(c, us, hist, userId, message.arg, id)
    [] OTHER -> Result(us, hist, sendError(c, userId, "Error: Unknown message type"), FALSE, <<>>)

\* ws.on("message"): parse, handle, and catch whatever is thrown
onMessage(c, us, hist, userId, data, id) ==
  LET r == IF data.type = "unparsable"
           THEN Result(us, hist, <<>>, TRUE, <<>>)              \* JSON.parse throws
           ELSE handleMessage(c, us, hist, userId, data, id)
  IN IF r.threw
     THEN [r EXCEPT !.out = r.out \o sendError(c, userId, "Error: Invalid message format")]
     ELSE r

Apply(r, op, id, arg) ==
  /\ users' = r.users
  /\ messageHistory' = r.history
  /\ outbox' = r.out
  /\ accepted' = accepted \o r.stored
  /\ last' = [op |-> op, id |-> id, arg |-> arg, ret |-> 0]
  /\ received' = IF op \in {"error", "close"}
                 THEN [received EXCEPT ![id] = {}]
                 ELSE Receives(received, r.out)

\* ------------------------------------------------------------------ actions
\* mutant: the user list goes out before the welcome
ConnectionListFirst(maxConn) ==
  /\ nextUserId < FirstUserId + maxConn
  /\ LET userId == nextUserId
         c == [conn EXCEPT ![userId] = "open"]
     IN /\ nextUserId' = nextUserId + 1
        /\ conn' = c
        /\ outbox' = <<sendUserList(c, users, userId), sendMessage(c, userId, WelcomeMessage)>>
        /\ last' = [op |-> "connection", id |-> userId, arg |-> Absent, ret |-> 0]
  /\ UNCHANGED <<users, messageHistory, accepted, received>>
\* mutant: the counter of user ids is read and not incremented
ConnectionNoIncrement(maxConn) ==
  /\ nextUserId < FirstUserId + maxConn
  /\ LET userId == nextUserId
         c == [conn EXCEPT ![userId] = "open"]
     IN /\ nextUserId' = nextUserId
        /\ conn' = c
        /\ outbox' = <<sendMessage(c, userId, WelcomeMessage), sendUserList(c, users, userId)>>
        /\ last' = [op |-> "connection", id |-> userId, arg |-> Absent, ret |-> 0]
  /\ UNCHANGED <<users, messageHistory, accepted, received>>
\* wss.on("connection")
Connection(maxConn) ==
  /\ nextUserId < FirstUserId + maxConn
  /\ LET userId == nextUserId
         c == [conn EXCEPT ![userId] = "open"]
     IN /\ nextUserId' = nextUserId + 1
        /\ conn' = c
        /\ outbox' = <<sendMessage(c, userId, WelcomeMessage), sendUserList(c, users, userId)>>
        /\ last' = [op |-> "connection", id |-> userId, arg |-> Absent, ret |-> 0]
  /\ UNCHANGED <<users, messageHistory, accepted, received>>

\* ws.on("message") for a payload of the given type; the socket delivers
\* data only while it is open
Receive(userId, type, arg, maxMsgs) ==
  /\ conn[userId] = "open"
  /\ LET r == onMessage(conn, users, messageHistory, userId,
                        [type |-> type, arg |-> arg, ret |-> 0], Len(accepted) + 1)
     IN /\ r.stored # <<>> => Len(accepted) < maxMsgs
        /\ Apply(r, type, userId, arg)
  /\ UNCHANGED <<nextUserId, conn>>

ReceiveJoin(userId, username) == Receive(userId, "join", username, 0)
ReceiveChat(userId, content, maxMsgs) == Receive(userId, "message", content, maxMsgs)
ReceiveInvalid(userId, kind) == Receive(userId, kind, Absent, 0)

\* The socket leaves OPEN (a close frame arrived, or the TCP stream ended)
\* before its "close" event is emitted: no handler of the server runs.
SocketClosing(userId) ==
  /\ conn[userId] = "open"
  /\ conn' = [conn EXCEPT ![userId] = "closing"]
  /\ outbox' = <<>>
  /\ last' = [op |-> "closing", id |-> userId, arg |-> Absent, ret |-> 0]
  /\ UNCHANGED <<users, messageHistory, nextUserId, accepted, received>>

\* ws.on("error"): the socket is no longer OPEN; "close" follows
SocketError(userId) ==
  /\ conn[userId] \in {"open", "closing"}
  /\ conn' = [conn EXCEPT ![userId] = "errored"]
  /\ Apply(handleUserDisconnect(conn', users, messageHistory, userId), "error", userId, Absent)
  /\ UNCHANGED nextUserId

\* mutant: no listener is registered for "close"
SocketCloseNoHandler(userId) ==
  /\ conn[userId] \in {"open", "closing", "errored"}
  /\ conn' = [conn EXCEPT ![userId] = "closed"]
  /\ Apply(Result(users, messageHistory, <<>>, FALSE, <<>>), "close", userId, Absent)
  /\ UNCHANGED nextUserId
\* ws.on("close")
SocketClose(userId) ==
  /\ conn[userId] \in {"open", "closing", "errored"}
  /\ conn' = [conn EXCEPT ![userId] = "closed"]
  /\ Apply(handleUserDisconnect(conn', users, messageHistory, userId), "close", userId, Absent)
  /\ UNCHANGED nextUserId

\* "close" is emitted for a socket that has left OPEN: the ws library emits
\* it once the closing handshake is done or the TCP stream has ended
EmitClose(userId) ==
  /\ conn[userId] \in {"closing", "errored"}
  /\ SocketClose(userId)
\* mutant: the sockets that are connected are counted (wss.clients.size)
getConnectedUsersCountSockets(us) ==
  Cardinality({ s \in Ids : conn[s] \in {"open", "closing"} })

\* websocket.ts:231-233, users.size
getConnectedUsersCount(us) == Len(us)

\* server.ts:24-29, GET /chat/users: `chatServer?.getConnectedUsersCount() || 0`
\* with the chat server that createHttpServerWithWebSocket has set up
ChatUsersRequest ==
  /\ outbox' = <<>>
  /\ last' = [op |-> "chat_users", id |-> 0, arg |-> Absent,
              ret |-> (IF getConnectedUsersCount(users) = 0 THEN 0
                       ELSE getConnectedUsersCount(users))]
  /\ UNCHANGED <<users, messageHistory, nextUserId, conn, accepted, received>>
\* Every kind of payload, on sockets that stay open until they fail or close.
Next ==
  \/ Connection(MaxConn)
  \/ \E userId \in Ids, username \in Usernames : ReceiveJoin(userId, username)
  \/ \E userId \in Ids, content \in Contents : ReceiveChat(userId, content, MaxMsgs)
  \/ \E userId \in Ids, kind \in InvalidKinds : ReceiveInvalid(userId, kind)
  \/ \E userId \in Ids : SocketError(userId)
  \/ \E userId \in Ids : SocketClose(userId)

Spec == Init /\ [][Next]_vars

\* Well-formed payloads, on sockets that can leave OPEN before they close.
NextRoom ==
  \/ Connection(RoomConn)
  \/ \E userId \in Ids, username \in RoomUsernames : ReceiveJoin(userId, username)
  \/ \E userId \in Ids, content \in RoomContents : ReceiveChat(userId, content, RoomMsgs)
  \/ ChatUsersRequest
  \/ \E userId \in Ids : SocketClosing(userId)
  \/ \E userId \in Ids : SocketError(userId)
  \/ \E userId \in Ids : SocketClose(userId)

SpecRoom == Init /\ [][NextRoom]_vars

\* One name and one text, long enough for the history to overflow.
NextHist ==
  \/ Connection(HistConn)
  \/ \E userId \in Ids, username \in HistUsernames : ReceiveJoin(userId, username)
  \/ \E userId \in Ids, content \in HistContents : ReceiveChat(userId, content, HistMsgs)
  \/ \E userId \in Ids : SocketClose(userId)

SpecHist == Init /\ [][NextHist]_vars
\* Joins only, under names that differ in their whitespace.
NextName ==
  \/ Connection(NameConn)
  \/ \E userId \in Ids, username \in NameUsernames : ReceiveJoin(userId, username)
  \/ \E userId \in Ids : SocketClose(userId)

SpecName == Init /\ [][NextName]_vars
\* Joins and disconnects, with the event loop running the "close" listener
\* of every socket that has left OPEN.
NextLive ==
  \/ Connection(LiveConn)
  \/ \E userId \in Ids, username \in RoomUsernames : ReceiveJoin(userId, username)
  \/ \E userId \in Ids : SocketClosing(userId)
  \/ \E userId \in Ids : SocketError(userId)
  \/ \E userId \in Ids : SocketClose(userId)

SpecLive == Init /\ [][NextLive]_vars /\ \A userId \in Ids : WF_vars(EmitClose(userId))
\* ================================================================== claims
Min(a, b) == IF a < b THEN a ELSE b
SameNameIgnoringCase(a, b) == toLowerCase(a) = toLowerCase(b)
Joined(us) == { us[i].id : i \in 1..Len(us) }
NameOf(us, id) == Get(us, id).username

\* C1: no two entries of the users map hold names that are equal when case
\* is ignored (and no two entries have the same session id).
C1_UniqueNames ==
  \A i, j \in 1..Len(users) :
    i # j => /\ users[i].id # users[j].id
             /\ ~SameNameIgnoringCase(users[i].username, users[j].username)

\* Two sessions are joined and a join under a case variant of the name of
\* the other session has just been turned down.
C1_Witness ==
  /\ Len(users) = 2
  /\ last.op = "join" /\ last.arg.t = "str"
  /\ \E i \in 1..Len(users) :
       /\ users[i].id # last.id
       /\ users[i].username # trim(last.arg.s)
       /\ SameNameIgnoringCase(users[i].username, trim(last.arg.s))

\* C2: a session that is joined keeps its display name for as long as it
\* is in the users map: no step changes the name stored for its id.
C2_NameImmutable ==
  [][\A id \in Joined(users) \cap Joined(users') :
       NameOf(users', id) = NameOf(users, id)]_vars

\* C3: the history is never longer than 100 and its length is
\* min(N, 100), N the number of chat messages stored so far.
C3_HistoryLength ==
  /\ Len(messageHistory) <= HistoryLimit
  /\ Len(messageHistory) = Min(Len(accepted), HistoryLimit)

\* More messages were stored than the history keeps.
C3_Witness ==
  /\ Len(accepted) > HistoryLimit
  /\ Len(messageHistory) = HistoryLimit

\* C4: the history is the last min(N, 100) stored messages, in the order
\* they were stored.
C4_HistoryFifo ==
  LET n == Len(accepted)
      k == Min(n, HistoryLimit)
  IN messageHistory = SubSeq(accepted, n - k + 1, n)

\* After 101 stored messages the history starts with the 2nd one.
C4_Witness ==
  /\ Len(accepted) = HistoryLimit + 1
  /\ Len(messageHistory) = HistoryLimit
  /\ messageHistory[1] = accepted[2]
  /\ messageHistory[1].id = 2
  /\ messageHistory[HistoryLimit].id = HistoryLimit + 1

\* ---- joins, as the claims describe them
NameHeld(us, name) ==
  \E i \in 1..Len(us) : SameNameIgnoringCase(us[i].username, name)
NameHeldByOther(us, id, name) ==
  \E i \in 1..Len(us) : us[i].id # id /\ SameNameIgnoringCase(us[i].username, name)
\* the name is empty after trimming, or it is already held
RejectedJoinCase(us, arg) ==
  /\ arg.t \in {"str", "absent"}
  /\ (trim(arg.s) = <<>> \/ NameHeld(us, trim(arg.s)))
AcceptedJoinCase(us, arg) ==
  /\ arg.t = "str"
  /\ trim(arg.s) # <<>>
  /\ ~NameHeld(us, trim(arg.s))
JoinErrors == { "Error: Username is required", "Error: Username already taken" }
IsErrorNotice(m) ==
  m.type = "message" /\ m.username = "System" /\ m.userId = SystemId /\ m.tag \in JoinErrors
IsRoster(send) == send.msg.type = "user_list"
IsChat(send) == send.msg.type = "message"
Indexes(out) == 1..Len(out)

\* C5: a join whose trimmed name is empty or already held leaves the users
\* map and the history as they were, and a session that was not joined
\* stays not joined.
C5_RejectedJoinFrame ==
  [][(last'.op = "join" /\ RejectedJoinCase(users, last'.arg)) =>
       /\ users' = users
       /\ messageHistory' = messageHistory
       /\ (last'.id \notin Joined(users) => last'.id \notin Joined(users'))]_vars

\* A session that is not joined asked for a name another session holds,
\* while the room had a user and a stored message.
C5_Witness ==
  /\ last.op = "join" /\ last.arg.t = "str"
  /\ trim(last.arg.s) # <<>>
  /\ NameHeld(users, trim(last.arg.s))
  /\ ~Has(users, last.id)
  /\ Len(messageHistory) >= 1

\* C6: a rejected join sends exactly one event: an error notice, to the
\* session that asked, and nothing to anybody else.
C6_RejectedJoinOneNotice ==
  [][(last'.op = "join" /\ RejectedJoinCase(users, last'.arg)) =>
       /\ Len(outbox') = 1
       /\ outbox'[1].to = last'.id
       /\ outbox'[1].delivered
       /\ IsErrorNotice(outbox'[1].msg)]_vars

\* A blank name was turned down while another session was joined and the
\* history was not empty.
C6_Witness ==
  /\ last.op = "join" /\ last.arg.t = "str"
  /\ last.arg.s # <<>> /\ trim(last.arg.s) = <<>>
  /\ ~Has(users, last.id)
  /\ Len(users) >= 1
  /\ Len(messageHistory) >= 1
  /\ Len(outbox) = 1

\* C7: a join with a name that is not blank is answered "Username already
\* taken" exactly when a session with another id holds the name, case
\* ignored.
C7_TakenIffHeldByOther ==
  [][(last'.op = "join" /\ last'.arg.t = "str" /\ trim(last'.arg.s) # <<>>) =>
       ((\E k \in Indexes(outbox') : outbox'[k].msg.tag = "Error: Username already taken")
          <=> NameHeldByOther(users, last'.id, trim(last'.arg.s)))]_vars

\* C8: the user lists sent by a join or a disconnect name exactly the
\* sessions in the users map after it, each once; when the map changed,
\* every session in it is sent one list, and all lists sent are the same.
C8_RosterConsistent ==
  [][last'.op \in {"join", "error", "close"} =>
       LET rosters == SelectSeq(outbox', IsRoster)
           joined == { [id |-> users'[i].id, username |-> users'[i].username] :
                         i \in 1..Len(users') }
       IN /\ \A k \in Indexes(rosters) :
               LET members == rosters[k].msg.members IN
               /\ { members[i] : i \in 1..Len(members) } = joined
               /\ Len(members) = Cardinality(joined)
               /\ rosters[k].delivered <=> conn'[rosters[k].to] = "open"
          /\ users' # users =>
               /\ { rosters[k].to : k \in Indexes(rosters) } = Joined(users')
               /\ Len(rosters) = Cardinality(Joined(users'))]_vars

\* A second session joined and both were sent the list of the two.
C8_Witness ==
  /\ last.op = "join"
  /\ Len(users) = 2
  /\ Len(SelectSeq(outbox, IsRoster)) = 2
  /\ \A k \in Indexes(outbox) : IsRoster(outbox[k]) => Len(outbox[k].msg.members) = 2

\* C9: after a successful join every session in the users map, the new one
\* included, is sent "<name> joined the chat" and then the user list, and
\* all of that precedes the first replayed message.
C9_JoinOrder ==
  [][(last'.op = "join" /\ AcceptedJoinCase(users, last'.arg)) =>
       LET out == outbox' IN
       /\ last'.id \in Joined(users')
       /\ \A u \in Joined(users') :
            \E p, q \in Indexes(out) :
              /\ p < q
              /\ out[p].to = u /\ out[p].msg.type = "user_joined"
              /\ out[p].msg.tag = "joined the chat" /\ out[p].msg.str = trim(last'.arg.s)
              /\ out[q].to = u /\ out[q].msg.type = "user_list"
              /\ out[p].delivered <=> conn'[u] = "open"
              /\ out[q].delivered <=> conn'[u] = "open"
              /\ \A h \in Indexes(out) : IsChat(out[h]) => q < h]_vars

\* A second session joined a room that had a stored message.
C9_Witness ==
  /\ last.op = "join"
  /\ Len(users) = 2 /\ users[2].id = last.id
  /\ Len(messageHistory) >= 1
  /\ outbox[1].msg.type = "user_joined" /\ outbox[1].to # last.id
  /\ IsChat(outbox[Len(outbox)])

\* C10: after a successful join the chat messages sent are the history as
\* it was at the join, oldest first, one send for each, all to the session
\* that joined.
C10_HistoryReplay ==
  [][(last'.op = "join" /\ AcceptedJoinCase(users, last'.arg)) =>
       SelectSeq(outbox', IsChat) =
         [i \in 1..Len(messageHistory) |->
            [to |-> last'.id, msg |-> messageHistory[i],
             delivered |-> conn[last'.id] = "open"]]]_vars

\* A second session joined a room that had two stored messages.
C10_Witness ==
  /\ last.op = "join"
  /\ Len(users) = 2 /\ users[2].id = last.id
  /\ Len(messageHistory) = 2
  /\ Len(outbox) = 6
  /\ outbox[5].msg = messageHistory[1] /\ outbox[5].to = last.id
  /\ outbox[6].msg = messageHistory[2] /\ outbox[6].to = last.id

\* ---- chat messages, as the claims describe them
\* the text is a string that is not blank
HasText(arg) == arg.t = "str" /\ trim(arg.s) # <<>>
\* the text is missing or blank
NoText(arg) == arg.t \in {"str", "absent"} /\ trim(arg.s) = <<>>
Occurrences(seq, x) == Cardinality({ i \in 1..Len(seq) : seq[i] = x })

\* C11: a message with text from a joined session is stored once, as the
\* newest entry of the history, with the sender's name and the trimmed text,
\* and that same event is sent to every session in the users map, the
\* sender included.
C11_MessageBroadcast ==
  [][(last'.op = "message" /\ Has(users, last'.id) /\ HasText(last'.arg)) =>
       /\ Len(accepted') = Len(accepted) + 1
       /\ Len(messageHistory') >= 1
       /\ LET m == messageHistory'[Len(messageHistory')] IN
          /\ m = accepted'[Len(accepted')]
          /\ Occurrences(messageHistory', m) = 1
          /\ \A i \in 1..Len(messageHistory) : messageHistory[i] # m
          /\ m.type = "message"
          /\ m.username = NameOf(users, last'.id)
          /\ m.userId = last'.id
          /\ m.str = trim(last'.arg.s)
          /\ Len(outbox') = Cardinality(Joined(users))
          /\ \A u \in Joined(users) :
               \E k \in Indexes(outbox') :
                 /\ outbox'[k].to = u
                 /\ outbox'[k].msg = m
                 /\ outbox'[k].delivered <=> conn[u] = "open"]_vars

\* One of two joined sessions sent " h": both were sent the message "h".
C11_Witness ==
  /\ last.op = "message"
  /\ Len(users) = 2
  /\ Len(outbox) = 2
  /\ outbox[1].msg = outbox[2].msg
  /\ outbox[1].to # outbox[2].to
  /\ outbox[1].msg.userId = last.id
  /\ outbox[1].msg.str = <<"h">> /\ last.arg.s = <<" ", "h">>
  /\ outbox[1].delivered /\ outbox[2].delivered
  /\ messageHistory[Len(messageHistory)] = outbox[1].msg

\* C12: a message from a session that is not in the users map, or with a
\* text that is missing or blank, sends nothing to anybody and leaves the
\* users map and the history as they were.
C12_SilentDrop ==
  [][(/\ last'.op = "message"
      /\ (~Has(users, last'.id) \/ NoText(last'.arg))) =>
       /\ outbox' = <<>>
       /\ users' = users
       /\ messageHistory' = messageHistory
       /\ accepted' = accepted]_vars

\* A joined session sent a blank text while the room had a stored message.
C12_Witness ==
  /\ last.op = "message"
  /\ Has(users, last.id)
  /\ last.arg.t = "str" /\ last.arg.s # <<>> /\ trim(last.arg.s) = <<>>
  /\ Len(messageHistory) = 1
  /\ outbox = <<>>

\* ---- disconnects, as the claims describe them
IsDisconnect(op) == op \in {"close", "error"}
Without(us, id) == SelectSeq(us, LAMBDA u : u.id # id)

\* C13: when the socket of a session in the users map closes or fails, the
\* session is taken out of the map and every session left in it is sent
\* "<name> left the chat" and then a user list without the departed one;
\* when the session is not in the map, nothing is sent and nothing changes.
C13_Disconnect ==
  [][IsDisconnect(last'.op) =>
       IF Has(users, last'.id)
       THEN LET out == outbox' IN
            /\ users' = Without(users, last'.id)
            /\ messageHistory' = messageHistory
            /\ \A k \in Indexes(out) : out[k].to # last'.id
            /\ \A u \in Joined(users') :
                 \E p, q \in Indexes(out) :
                   /\ p < q
                   /\ out[p].to = u /\ out[p].msg.type = "user_left"
                   /\ out[p].msg.str = NameOf(users, last'.id)
                   /\ out[q].to = u /\ out[q].msg.type = "user_list"
                   /\ \A i \in 1..Len(out[q].msg.members) :
                        out[q].msg.members[i].id # last'.id
                   /\ Len(out[q].msg.members) = Len(users')
                   /\ out[p].delivered <=> conn'[u] = "open"
                   /\ out[q].delivered <=> conn'[u] = "open"
       ELSE /\ outbox' = <<>>
            /\ users' = users
            /\ messageHistory' = messageHistory]_vars

\* The socket of one of two joined sessions closed: the other one was sent
\* the leave message and then the list with itself alone.
C13_Witness ==
  /\ last.op = "close"
  /\ Len(users) = 1 /\ users[1].id # last.id
  /\ Len(outbox) = 2
  /\ outbox[1].msg.type = "user_left" /\ outbox[1].to = users[1].id
  /\ outbox[2].msg.type = "user_list" /\ outbox[2].to = users[1].id
  /\ outbox[2].msg.members = <<[id |-> users[1].id, username |-> users[1].username]>>

\* C14: the disconnect handler run a second time for a session ("error",
\* then "close") changes nothing and sends nothing; the first run, for a
\* session in the users map, takes it out of the map and notifies whoever
\* is left.
C14_DisconnectIdempotent ==
  [][/\ (last'.op = "close" /\ conn[last'.id] = "errored") =>
          /\ users' = users
          /\ messageHistory' = messageHistory
          /\ outbox' = <<>>
     /\ (last'.op = "error" /\ Has(users, last'.id)) =>
          /\ ~Has(users', last'.id)
          /\ (users' # <<>> => outbox' # <<>>)]_vars

\* The socket of a session that had sent a chat message (so it had joined)
\* closed and nobody was notified although another session is joined: its
\* "error" had already taken it out of the map.
C14_Witness ==
  /\ last.op = "close"
  /\ conn[last.id] = "closed"
  /\ outbox = <<>>
  /\ Len(users) >= 1
  /\ \E k \in 1..Len(accepted) : accepted[k].userId = last.id

\* ---- protocol errors, as the claims describe them
ProtocolErrors == { "Error: Invalid message format", "Error: Unknown message type" }
IsNotice(m) ==
  m.type = "message" /\ m.username = "System" /\ m.userId = SystemId
    /\ m.tag \in (ProtocolErrors \cup JoinErrors)

\* C15: a payload that does not parse or has an unknown type is answered
\* with exactly one error notice, sent to the session it came from, and
\* leaves the users map and the history as they were; and no step sends an
\* error notice to a session other than the one whose input is handled.
C15_ProtocolError ==
  [][/\ last'.op \in InvalidKinds =>
          /\ Len(outbox') = 1
          /\ outbox'[1].to = last'.id
          /\ outbox'[1].delivered
          /\ IsNotice(outbox'[1].msg)
          /\ outbox'[1].msg.tag =
               (IF last'.op = "unknown_type" THEN "Error: Unknown message type"
                                             ELSE "Error: Invalid message format")
          /\ users' = users
          /\ messageHistory' = messageHistory
     /\ \A k \in Indexes(outbox') :
          IsNotice(outbox'[k].msg) =>
            /\ outbox'[k].to = last'.id
            /\ last'.op \in (InvalidKinds \cup {"join", "message"})]_vars

\* A joined session sent a payload of an unknown type while another session
\* was joined too: it alone was sent a notice.
C15_Witness ==
  /\ last.op = "unknown_type"
  /\ Len(users) = 2 /\ Has(users, last.id)
  /\ Len(outbox) = 1
  /\ outbox[1].to = last.id
  /\ outbox[1].msg.tag = "Error: Unknown message type"

\* C16: accepting a connection sends the new session the welcome and then
\* the list of the sessions in the users map, and nothing else; a payload
\* of a session is handled only after its connection was accepted.
C16_Welcome ==
  [][/\ last'.op = "connection" =>
          /\ conn[last'.id] = "none" /\ conn'[last'.id] = "open"
          /\ Len(outbox') = 2
          /\ outbox'[1].to = last'.id /\ outbox'[1].delivered
          /\ outbox'[1].msg.tag = "Welcome to the chat!"
          /\ outbox'[1].msg.username = "System"
          /\ outbox'[2].to = last'.id /\ outbox'[2].delivered
          /\ outbox'[2].msg.type = "user_list"
          /\ outbox'[2].msg.members =
               [i \in 1..Len(users) |-> [id |-> users[i].id, username |-> users[i].username]]
          /\ users' = users
     /\ last'.op \in {"join", "message"} =>
          /\ conn[last'.id] = "open"
          /\ last'.id < nextUserId]_vars

\* A connection was accepted while one session was joined: the newcomer was
\* sent the welcome and a list of one.
C16_Witness ==
  /\ last.op = "connection"
  /\ Len(users) = 1
  /\ Len(outbox) = 2
  /\ outbox[1].msg.tag = "Welcome to the chat!" /\ outbox[1].to = last.id
  /\ outbox[2].msg.type = "user_list" /\ Len(outbox[2].msg.members) = 1
  /\ ~Has(users, last.id)

\* ---- broadcasts
\* the events a handler sends to the whole users map
IsBroadcast(m, op) ==
  \/ m.type = "user_left"
  \/ m.type = "user_joined" /\ m.tag = "joined the chat"
  \/ m.type = "user_list" /\ op # "connection"
  \/ m.type = "message" /\ m.tag = "text" /\ op = "message"

\* C17: a send goes out exactly when the socket of its target is OPEN; a
\* broadcast reaches every session in the users map whose socket is OPEN,
\* whatever the state of the other sockets; and a session whose send did
\* not go out is still in the users map.
C17_DeliveryIsolated ==
  \A k \in Indexes(outbox) :
    /\ outbox[k].delivered <=> conn[outbox[k].to] = "open"
    /\ ~outbox[k].delivered => Has(users, outbox[k].to)
    /\ IsBroadcast(outbox[k].msg, last.op) =>
         \A u \in Joined(users) :
           \E j \in Indexes(outbox) :
             /\ outbox[j].to = u
             /\ outbox[j].msg = outbox[k].msg
             /\ conn[u] = "open" => outbox[j].delivered

\* A chat message was broadcast to two sessions: the socket of the first in
\* the map was not OPEN, the second was sent the message all the same.
C17_Witness ==
  /\ last.op = "message"
  /\ Len(users) = 2
  /\ Len(outbox) = 2
  /\ outbox[1].to = users[1].id /\ ~outbox[1].delivered
  /\ outbox[2].to = users[2].id /\ outbox[2].delivered
  /\ conn[users[1].id] = "closing"

\* ---- order of the chat messages a session is sent
ChatSendsTo(out, u) == SelectSeq(out, LAMBDA s : s.to = u /\ s.msg.type = "message" /\ s.msg.tag = "text")
Ascending(sends) ==
  \A i, j \in 1..Len(sends) : i < j => sends[i].msg.id < sends[j].msg.id

\* C18: chat messages are sent to a session in the order they were
\* accepted: the stored messages are numbered in the order of acceptance,
\* the handler that accepts a message sends that message (the newest) and
\* no other, once to each session, and a replay after a join runs through
\* the history in ascending order.
C18_SendOrder ==
  [][/\ \A i \in 1..Len(accepted') : accepted'[i].id = i
     /\ \A u \in Ids : Ascending(ChatSendsTo(outbox', u))
     /\ last'.op = "message" =>
          \A u \in Ids :
            LET sends == ChatSendsTo(outbox', u) IN
            /\ Len(sends) <= 1
            /\ Len(sends) = 1 =>
                 /\ sends[1].msg = accepted'[Len(accepted')]
                 /\ Len(accepted') = Len(accepted) + 1
     /\ last'.op = "join" =>
          \A u \in Ids :
            LET sends == ChatSendsTo(outbox', u) IN
            \A i \in 1..Len(sends) : sends[i].msg = accepted[i]]_vars

\* The session that sent the first message, still joined, is sent the
\* second message, which another session wrote.
C18_Witness ==
  /\ last.op = "message"
  /\ Len(accepted) = 2
  /\ accepted[1].userId # accepted[2].userId
  /\ Has(users, accepted[1].userId)
  /\ \E k \in Indexes(outbox) :
       /\ outbox[k].to = accepted[1].userId
       /\ outbox[k].msg = accepted[2]
       /\ outbox[k].delivered

\* C19: joins are handled one at a time.  Of two sessions that are not
\* joined and ask for names that are equal when case is ignored, the one
\* handled first gets the name and the one handled after it is answered
\* "Username already taken" and stays out of the users map: a join by a
\* session that is not joined succeeds exactly when nobody holds the name.
C19_OneJoinWins ==
  [][(last'.op = "join" /\ ~Has(users, last'.id) /\ HasText(last'.arg)) =>
       LET name == trim(last'.arg.s) IN
       IF NameHeld(users, name)
       THEN /\ users' = users
            /\ Len(outbox') = 1
            /\ outbox'[1].to = last'.id
            /\ outbox'[1].msg.tag = "Error: Username already taken"
       ELSE /\ users' = Append(users, [id |-> last'.id, username |-> name])
            /\ \A k \in Indexes(outbox') : ~IsNotice(outbox'[k].msg)]_vars

\* Two sessions were connected and not joined; one got the name "a", then
\* the other asked for " A " and was turned down.
C19_Witness ==
  /\ last.op = "join"
  /\ last.arg = Str(<<" ", "A", " ">>)
  /\ Len(users) = 1
  /\ users[1].username = <<"a">>
  /\ users[1].id # last.id
  /\ conn[last.id] = "open" /\ conn[users[1].id] = "open"
  /\ accepted = <<>>
  /\ received = [s \in Ids |-> {}]
  /\ Len(outbox) = 1
  /\ outbox[1].msg.tag = "Error: Username already taken"

\* C20: GET /chat/users answers with the number of sessions in the users
\* map at that moment (sessions that are connected and not joined are not
\* counted, nor are sessions that have left) and changes nothing.
C20_ConnectedUsersCount ==
  [][last'.op = "chat_users" =>
       /\ last'.ret = Cardinality({ s \in Ids : Has(users, s) })
       /\ last'.ret = Len(users)
       /\ \A s \in Ids : conn[s] \in {"none", "errored", "closed"} => ~Has(users, s)
       /\ UNCHANGED <<users, messageHistory, nextUserId, conn, accepted>>]_vars

\* Two sessions are connected, one of them joined: the answer is 1.
C20_Witness ==
  /\ last.op = "chat_users"
  /\ last.ret = 1
  /\ Len(users) = 1
  /\ \E s \in Ids : conn[s] = "open" /\ ~Has(users, s)

\* ---- session ids
\* the ids of the connections accepted so far, closed ones included
EverAccepted(c) == { s \in Ids : c[s] # "none" }

\* C21: the id given to a connection at accept differs from the id of every
\* connection accepted before it, closed ones included: an id once given
\* stays given, and accepting a connection gives an id that was not.
C21_FreshId ==
  [][/\ EverAccepted(conn) \subseteq EverAccepted(conn')
     /\ last'.op = "connection" =>
          /\ last'.id \notin EverAccepted(conn)
          /\ EverAccepted(conn') = EverAccepted(conn) \cup {last'.id}
          /\ \A s \in EverAccepted(conn) : s < last'.id]_vars

\* A connection was accepted after the first one had closed: it got
\* another id.
C21_Witness ==
  /\ last.op = "connection"
  /\ last.id # FirstUserId
  /\ conn[FirstUserId] = "closed"
  /\ conn[last.id] = "open"

\* ---- what the history holds
\* a chat event: of type "message", carrying a text and its sender
IsChatEvent(m) ==
  /\ m.type = "message"
  /\ m.tag = "text"
  /\ m.userId \in Ids
  /\ m.str # <<>>
IsSystemEvent(m) == m.userId = SystemId

\* C22: every entry of the history is a chat event of type "message" that
\* handleChatMessage stored; the welcome, join and leave notices, user
\* lists and error notices are never in it.
C22_HistoryOnlyMessages ==
  \A i \in 1..Len(messageHistory) :
    /\ IsChatEvent(messageHistory[i])
    /\ ~IsSystemEvent(messageHistory[i])
    /\ \E k \in 1..Len(accepted) : accepted[k] = messageHistory[i]

\* An error notice was just sent, two sessions had been welcomed and had
\* joined, and the history holds the one chat message.
C22_Witness ==
  /\ last.op \in InvalidKinds
  /\ Len(outbox) = 1 /\ IsNotice(outbox[1].msg)
  /\ Len(users) = 2
  /\ Len(messageHistory) = 1
  /\ IsChatEvent(messageHistory[1])

\* ---- the name a join binds
OneNotice(out, to, error) ==
  /\ Len(out) = 1
  /\ out[1].to = to
  /\ out[1].msg.tag = error
  /\ out[1].msg.type = "message" /\ out[1].msg.username = "System"

\* C23: a join works with the trimmed name.  A name that is empty after
\* trimming is turned down with "Username is required"; a name whose
\* trimmed form is stored for a session is turned down with "Username
\* already taken"; and when the join goes through, the name stored for the
\* session, the name in the join notice and the name in every user list
\* sent is the trimmed name.  Every stored name is trimmed and not empty.
C23_TrimmedName ==
  [][/\ (last'.op = "join" /\ last'.arg.t = "str") =>
          LET name == trim(last'.arg.s)
              id == last'.id
          IN /\ name = <<>> =>
                  /\ users' = users
                  /\ OneNotice(outbox', id, "Error: Username is required")
             /\ (name # <<>> /\ \E i \in 1..Len(users) : users[i].username = name) =>
                  /\ users' = users
                  /\ OneNotice(outbox', id, "Error: Username already taken")
             /\ (name # <<>> /\ ~\E i \in 1..Len(users) : users[i].username = name) =>
                  /\ Has(users', id)
                  /\ NameOf(users', id) = name
                  /\ \A k \in Indexes(outbox') :
                       /\ outbox'[k].msg.type = "user_joined" => outbox'[k].msg.str = name
                       /\ outbox'[k].msg.type = "user_list" =>
                            \E i \in 1..Len(outbox'[k].msg.members) :
                              outbox'[k].msg.members[i] = [id |-> id, username |-> name]
     /\ \A i \in 1..Len(users') :
          /\ users'[i].username # <<>>
          /\ users'[i].username = trim(users'[i].username)]_vars

\* One session holds "a"; another one asked for " a " and was turned down.
C23_Witness ==
  /\ last.op = "join"
  /\ last.arg = Str(<<" ", "a", " ">>)
  /\ Len(users) = 1
  /\ users[1].username = <<"a">> /\ users[1].id # last.id
  /\ OneNotice(outbox, last.id, "Error: Username already taken")

\* ---- the welcome
\* C24 as the claim states it: the first event sent to a connection that
\* was just accepted, the welcome, is a system event of type "message" with
\* username "System".
C24_WelcomeIsMessage ==
  last.op = "connection" =>
    /\ outbox[1].to = last.id
    /\ outbox[1].msg.type = "message"
    /\ outbox[1].msg.username = "System"

\* C24, amended: the welcome sent to a connection that was just accepted is
\* a system event of type "user_joined" with the content "Welcome to the
\* chat!", username "System" and userId "system"; it names no user.
C24_WelcomeKind ==
  last.op = "connection" =>
    /\ outbox[1].to = last.id
    /\ outbox[1].delivered
    /\ outbox[1].msg.type = "user_joined"
    /\ outbox[1].msg.tag = "Welcome to the chat!"
    /\ outbox[1].msg.str = <<>>
    /\ outbox[1].msg.username = "System"
    /\ outbox[1].msg.userId = SystemId

\* The second connection was accepted while the first session was joined
\* and had written to the room: its welcome is of type "user_joined".
C24_Witness ==
  /\ last.op = "connection"
  /\ last.id = FirstUserId + 1
  /\ Has(users, FirstUserId)
  /\ Len(messageHistory) >= 1
  /\ outbox[1].msg.type = "user_joined"
  /\ outbox[1].msg.tag = "Welcome to the chat!"

\* ---- the end of a session
\* C25: a session whose "close" has been handled stays closed, is not in
\* the users map in any later state, and no handler sends it anything
\* from then on (the handler of the "close" included).
C25_ClosedTerminal ==
  [][\A s \in Ids :
       /\ conn[s] = "closed" => conn'[s] = "closed"
       /\ conn'[s] = "closed" =>
            /\ ~Has(users', s)
            /\ \A k \in Indexes(outbox') : outbox'[k].to # s]_vars

\* A session that had written to the room is closed; another session then
\* wrote a message, which went to the sessions in the map and not to the
\* closed one.
C25_Witness ==
  /\ last.op = "message"
  /\ Len(outbox) >= 1
  /\ \E s \in Ids :
       /\ conn[s] = "closed"
       /\ s # last.id
       /\ \E k \in 1..Len(accepted) : accepted[k].userId = s
       /\ \A k \in Indexes(outbox) : outbox[k].to # s

\* ---- disconnects get handled
RoomNames == { trim(u.s) : u \in RoomUsernames }
\* the disconnect of session s, which held the name, was just handled: s is
\* out of the map and every session left in it was sent "<name> left the
\* chat"
LeftAnnounced(s, name) ==
  /\ IsDisconnect(last.op) /\ last.id = s
  /\ ~Has(users, s)
  /\ \A u \in Joined(users) :
       \E k \in Indexes(outbox) :
         /\ outbox[k].to = u
         /\ outbox[k].msg.type = "user_left"
         /\ outbox[k].msg.str = name
         /\ outbox[k].delivered <=> conn[u] = "open"

\* C26: when the "close" listeners get to run, a session in the users map
\* whose socket has left OPEN is eventually taken out of the map, and at
\* that moment "<name> left the chat" is sent to every session left in it.
C26_EventuallyLeft ==
  \A s \in Ids : \A name \in RoomNames :
    (conn[s] = "closing" /\ Has(users, s) /\ NameOf(users, s) = name)
      ~> LeftAnnounced(s, name)

\* The socket of "a" has closed and "b", still joined, was sent "a left
\* the chat".
C26_Witness ==
  /\ last.op = "close"
  /\ conn[last.id] = "closed"
  /\ LeftAnnounced(last.id, <<"a">>)
  /\ Len(users) = 1 /\ users[1].username = <<"b">>
  /\ Len(outbox) = 2 /\ outbox[1].delivered

\* ---- sessions that have not joined
\* C27: whatever a handler sends to a session that is not in the users map
\* is either the welcome or the user list of its own connection being
\* accepted, or an error notice answering its own payload; chat messages,
\* join and leave notices and the user lists that follow them go to the
\* sessions in the map only.
C27_UnjoinedNoBroadcast ==
  \A k \in Indexes(outbox) :
    ~Has(users, outbox[k].to) =>
      /\ outbox[k].to = last.id
      /\ \/ /\ last.op = "connection"
            /\ \/ k = 1 /\ outbox[k].msg.tag = "Welcome to the chat!"
               \/ k = 2 /\ outbox[k].msg.type = "user_list"
         \/ /\ last.op \in (InvalidKinds \cup {"join", "message"})
            /\ IsNotice(outbox[k].msg)
            /\ Len(outbox) = 1

\* One session is connected and has not joined; the other one, joined,
\* wrote a message, which was sent to it alone.
C27_Witness ==
  /\ last.op = "message"
  /\ Len(outbox) = 1
  /\ outbox[1].to = last.id /\ outbox[1].msg.tag = "text"
  /\ \E s \in Ids : s # last.id /\ conn[s] = "open" /\ ~Has(users, s)

\* ---- how often a session is sent a chat message
ChatSendsDelivered(out, to) ==
  SelectSeq(out, LAMBDA s : s.to = to /\ s.delivered /\ s.msg.type = "message" /\ s.msg.tag = "text")

\* C28: no chat message goes out twice on the socket of a session, live
\* broadcast and replay of the history counted together: a handler sends a
\* session no message that went out to it before, and no message twice.
C28_NoDuplicate ==
  [][\A s \in Ids :
       /\ received[s] \cap Delivered(outbox', s) = {}
       /\ Len(ChatSendsDelivered(outbox', s)) = Cardinality(Delivered(outbox', s))]_vars

\* ---- what changes the history
\* C29: the history changes in the step that accepts a chat message (a text
\* that is not blank, from a session in the users map) and in no other:
\* accepting a connection, a join (accepted or turned down), a disconnect,
\* a dropped message and a payload that is not understood leave it as it
\* was, so the messages of a session stay in it when the session leaves.
C29_HistoryFrame ==
  [][LET accepting ==
           /\ last'.op = "message"
           /\ Has(users, last'.id)
           /\ HasText(last'.arg)
     IN /\ ~accepting => messageHistory' = messageHistory
        /\ accepting => messageHistory' # messageHistory
        /\ IsDisconnect(last'.op) =>
             \A i \in 1..Len(messageHistory) :
               messageHistory[i].userId = last'.id => messageHistory'[i] = messageHistory[i]]_vars

\* The session that wrote the one message of the history has left: its
\* socket closed, it is out of the map, and its message is still there.
C29_Witness ==
  /\ last.op = "close"
  /\ ~Has(users, last.id)
  /\ Len(users) = 1
  /\ Len(messageHistory) = 1
  /\ messageHistory[1].userId = last.id
  /\ Len(outbox) = 2

\* ---- join and leave notices
Names(us) == { us[i].username : i \in 1..Len(us) }
Announces(out, type, name) ==
  \E k \in Indexes(out) :
    out[k].msg.type = type /\ out[k].msg.str = name /\ out[k].msg.userId = SystemId

\* C30: the names in the users map are the names announced as joined and
\* not announced as left since.  Step by step: a leave notice names a name
\* that was in the map and goes out of it in that step (so a join notice
\* for it came before, and no other leave notice since); a join notice
\* names a name that comes into the map in that step; and a name goes out
\* of the map only in the step of a disconnect, which broadcasts the leave
\* notice for it to the sessions left in the map.
C30_JoinLeavePaired ==
  [][LET gone == Names(users) \ Names(users')
         come == Names(users') \ Names(users)
     IN /\ \A k \in Indexes(outbox') :
             /\ outbox'[k].msg.type = "user_left" => outbox'[k].msg.str \in gone
             /\ (outbox'[k].msg.type = "user_joined" /\ outbox'[k].msg.tag = "joined the chat")
                  => outbox'[k].msg.str \in come
        /\ \A name \in come : Announces(outbox', "user_joined", name)
        /\ \A name \in gone :
             /\ IsDisconnect(last'.op)
             /\ users' # <<>> => Announces(outbox', "user_left", name)]_vars
====
